---- MODULE Spec2Model ----
(***************************************************************************)
(* The GeoJSON location service of GIS-GITA/UTS-BE.                        *)
(*                                                                         *)
(*   api package (router, CORS middleware, four handlers, initDB)          *)
(*   cmd entry   (src/main.go: SetupRouter once, then ListenAndServe)      *)
(*   standalone server (a second package main with its own handlers)       *)
(*                                                                         *)
(* Three specifications share the state:                                   *)
(*   Spec            the api router serving requests after main.go has     *)
(*                   called SetupRouter;                                   *)
(*   SpecStandalone  the standalone server's router serving requests;      *)
(*   SpecHandler     the serverless entry point Handler called by          *)
(*                   concurrent goroutines of a fresh process.             *)
(*                                                                         *)
(* A request is served in one step: every handler performs at most one     *)
(* store operation, and the store applies each operation atomically.      *)
(* A store operation that returns an error is taken not to have been       *)
(* applied.                                                                *)
(***************************************************************************)
EXTENDS Integers, Sequences, FiniteSets, TLC

\* Number of distinct non-nil ObjectIDs that clients and the driver use.
NumIds == 2
\* Number of goroutines entering the package concurrently (SpecHandler).
NumProcs == 2
\* Number of requests the goroutines of SpecHandler serve in total.
MaxServed == 2

\* The hex form of a primitive.ObjectID ([12]byte) has 24 digits.
HexLen == 24

(***************************************************************************)
(* Values                                                                  *)
(***************************************************************************)
\* An ObjectID is the number its 12 bytes spell; the zero ObjectID is the
\* zero value of LocationFeature.ID.
NilObjectID == 0

ObjectIDs == 1..NumIds

\* A string that is meant to name an ObjectID is what the parser reads of
\* it: its length, whether all its characters are hex digits, and the
\* number its hex digits spell.
String(len, hex, value) == [len |-> len, hex |-> hex, value |-> value]

EmptyString == String(0, TRUE, 0)

\* ObjectID.Hex / ObjectID.MarshalJSON: two hex digits per byte.
Hex(id) == String(HexLen, TRUE, id)

\* primitive.ObjectIDFromHex: the length must be 24 and every character a
\* hex digit.
ObjectIDFromHex(s) ==
  IF s.len # HexLen THEN [err |-> TRUE, id |-> NilObjectID]
  ELSE IF ~s.hex THEN [err |-> TRUE, id |-> NilObjectID]
  ELSE [err |-> FALSE, id |-> s.value]

\* type Properties / type Geometry / type LocationFeature: zero values.
\* A nil []float64 is the empty sequence.
ZeroProperties == [name |-> "", description |-> ""]
ZeroGeometry == [type |-> "", coordinates |-> <<>>]
ZeroFeature ==
  [ID |-> NilObjectID, Type |-> "", Properties |-> ZeroProperties, Geometry |-> ZeroGeometry]

(***************************************************************************)
(* Request bodies.  An optional JSON member is a sequence of length 0      *)
(* (absent) or 1 (present).                                                *)
(***************************************************************************)
Some(v) == <<v>>
None == <<>>

\* json.Decoder.Decode into a Properties value: absent members keep "".
DecodeProperties(opt) ==
  IF opt = None THEN ZeroProperties
  ELSE [name        |-> IF opt[1].name = None THEN "" ELSE opt[1].name[1],
        description |-> IF opt[1].description = None THEN "" ELSE opt[1].description[1]]

\* json.Decoder.Decode into a Geometry value.
DecodeGeometry(opt) ==
  IF opt = None THEN ZeroGeometry
  ELSE [type        |-> IF opt[1].type = None THEN "" ELSE opt[1].type[1],
        coordinates |-> IF opt[1].coordinates = None THEN <<>> ELSE opt[1].coordinates[1]]

\* ObjectID.UnmarshalJSON on the "id" member: the empty string decodes to
\* NilObjectID, any other string must be 24 hex digits.
DecodeID(opt) ==
  IF opt = None THEN [err |-> FALSE, id |-> NilObjectID]
  ELSE IF opt[1].len = 0 THEN [err |-> FALSE, id |-> NilObjectID]
  ELSE ObjectIDFromHex(opt[1])

\* json.NewDecoder(r.Body).Decode(&feature)
Decode(body) ==
  IF ~body.wellFormed THEN [err |-> TRUE, feature |-> ZeroFeature]
  ELSE LET i == DecodeID(body.id) IN
    IF i.err THEN [err |-> TRUE, feature |-> ZeroFeature]
    ELSE [err |-> FALSE,
          feature |-> [ID         |-> i.id,
                       Type       |-> IF body.type = None THEN "" ELSE body.type[1],
                       Properties |-> DecodeProperties(body.properties),
                       Geometry   |-> DecodeGeometry(body.geometry)]]

(***************************************************************************)
(* The document store: the collection gis_db.locations, a sequence of      *)
(* documents in natural (insertion) order with a unique _id.               *)
(***************************************************************************)
StoreIds(s) == {s[i]._id : i \in 1..Len(s)}

\* The position of the first document whose _id is id, 0 if there is none.
FindIndex(s, id) ==
  IF \E i \in 1..Len(s) : s[i]._id = id
  THEN CHOOSE i \in 1..Len(s) : s[i]._id = id /\ \A j \in 1..(i - 1) : s[j]._id # id
  ELSE 0

\* bson.Marshal of a LocationFeature: `bson:"_id,omitempty"` leaves a zero ID
\* out, and InsertOne then adds a generated _id (gen).
ToDocument(feature, gen) ==
  [_id        |-> IF feature.ID = NilObjectID THEN gen ELSE feature.ID,
   type       |-> feature.Type,
   properties |-> feature.Properties,
   geometry   |-> feature.Geometry]

\* bson.Unmarshal of a document into a LocationFeature.
FromDocument(doc) ==
  [ID |-> doc._id, Type |-> doc.type, Properties |-> doc.properties, Geometry |-> doc.geometry]

\* InsertOne as it would be if the store kept a second document under an
\* _id already in use.
InsertOne_Duplicate(s, feature, gen, ok) ==
  LET doc == ToDocument(feature, gen) IN
  IF ~ok THEN [err |-> TRUE, store |-> s, InsertedID |-> NilObjectID]
  ELSE [err |-> FALSE, store |-> Append(s, doc), InsertedID |-> doc._id]

\* collection.InsertOne(ctx, feature): fails when the store is unavailable
\* (ok = FALSE) or the _id is in use (duplicate key).
InsertOne(s, feature, gen, ok) ==
  LET doc == ToDocument(feature, gen) IN
  IF ~ok \/ doc._id \in StoreIds(s)
  THEN [err |-> TRUE, store |-> s, InsertedID |-> NilObjectID]
  ELSE [err |-> FALSE, store |-> Append(s, doc), InsertedID |-> doc._id]

\* UpdateOne as it would be with upsert: no match inserts the document.
UpdateOne_Upsert(s, id, properties, geometry, ok) ==
  LET i == FindIndex(s, id) IN
  IF ~ok THEN [err |-> TRUE, store |-> s, MatchedCount |-> 0]
  ELSE IF i = 0
  THEN [err |-> FALSE,
        store |-> Append(s, [_id |-> id, type |-> "", properties |-> properties,
                             geometry |-> geometry]),
        MatchedCount |-> 0]
  ELSE [err |-> FALSE,
        store |-> [s EXCEPT ![i].properties = properties, ![i].geometry = geometry],
        MatchedCount |-> 1]

\* UpdateOne as it would be if $set named the members of properties one by
\* one and skipped the empty ones: the old description survives.
UpdateOne_Merge(s, id, properties, geometry, ok) ==
  LET i == FindIndex(s, id) IN
  IF ~ok THEN [err |-> TRUE, store |-> s, MatchedCount |-> 0]
  ELSE IF i = 0 THEN [err |-> FALSE, store |-> s, MatchedCount |-> 0]
  ELSE [err |-> FALSE,
        store |-> [s EXCEPT ![i].properties =
                              [name        |-> IF properties.name = "" THEN @.name
                                               ELSE properties.name,
                               description |-> IF properties.description = "" THEN @.description
                                               ELSE properties.description],
                            ![i].geometry = geometry],
        MatchedCount |-> 1]

\* collection.UpdateOne(ctx, bson.M{"_id": id}, bson.M{"$set": {properties, geometry}}):
\* no upsert; the first matching document gets both fields replaced.
UpdateOne(s, id, properties, geometry, ok) ==
  LET i == FindIndex(s, id) IN
  IF ~ok THEN [err |-> TRUE, store |-> s, MatchedCount |-> 0]
  ELSE IF i = 0 THEN [err |-> FALSE, store |-> s, MatchedCount |-> 0]
  ELSE [err |-> FALSE,
        store |-> [s EXCEPT ![i].properties = properties, ![i].geometry = geometry],
        MatchedCount |-> 1]

\* DeleteOne as it would be with an empty filter: the first document goes.
DeleteOne_First(s, id, ok) ==
  IF ~ok THEN [err |-> TRUE, store |-> s, DeletedCount |-> 0]
  ELSE IF FindIndex(s, id) = 0 THEN [err |-> FALSE, store |-> s, DeletedCount |-> 0]
  ELSE [err |-> FALSE, store |-> Tail(s), DeletedCount |-> 1]

\* collection.DeleteOne(ctx, bson.M{"_id": id}): removes the first match.
DeleteOne(s, id, ok) ==
  LET i == FindIndex(s, id) IN
  IF ~ok THEN [err |-> TRUE, store |-> s, DeletedCount |-> 0]
  ELSE IF i = 0 THEN [err |-> FALSE, store |-> s, DeletedCount |-> 0]
  ELSE [err |-> FALSE,
        store |-> [j \in 1..(Len(s) - 1) |-> IF j < i THEN s[j] ELSE s[j + 1]],
        DeletedCount |-> 1]

\* collection.Find(ctx, bson.M{}): a cursor over every document.
Find(s, ok) == [err |-> ~ok, cursor |-> IF ok THEN s ELSE <<>>]

\* A Go slice of LocationFeature: nil or not, and its elements.
NilSlice == [isNil |-> TRUE, elems |-> <<>>]
\* make([]LocationFeature, 0)
MakeSlice == [isNil |-> FALSE, elems |-> <<>>]

\* cursor.All(ctx, &features): decodes every document into the slice and
\* stores features[0:n] back; a nil slice with n = 0 stays nil.
CursorAll(cursor, features) ==
  [isNil |-> features.isNil /\ Len(cursor) = 0,
   elems |-> [i \in 1..Len(cursor) |-> FromDocument(cursor[i])]]

(***************************************************************************)
(* Responses.                                                              *)
(***************************************************************************)
\* The response headers the code sets; "" is a header that is not set.
NoHeaders == [allowOrigin |-> "", allowMethods |-> "", allowHeaders |-> "", contentType |-> ""]

\* LocationFeature.MarshalJSON (encoding/json with the struct's json tags).
EncodeFeature(f) ==
  [id |-> Hex(f.ID), type |-> f.Type, properties |-> f.Properties, geometry |-> f.Geometry]

\* A response body; the members a kind does not use keep these values.
EmptyBody ==
  [kind |-> "empty", text |-> "", id |-> EmptyString, feature |-> EncodeFeature(ZeroFeature),
   type |-> "", features |-> NilSlice]

\* What a handler leaves behind: the store, the response, the resource
\* handler that ran ("none" if none did) and the store operation it called.
Out(s, status, headers, body, handler, op) ==
  [store |-> s,
   resp  |-> [status |-> status, headers |-> headers, body |-> body,
              handler |-> handler, op |-> op]]

\* http.Error as it would be if it left the Content-Type alone.
HttpError_KeepsType(s, w, text, code, handler, op) ==
  Out(s, code, w, [EmptyBody EXCEPT !.kind = "error", !.text = text], handler, op)

\* http.Error(w, text, code): replaces Content-Type by text/plain, writes
\* the status and the text.
HttpError(s, w, text, code, handler, op) ==
  Out(s, code, [w EXCEPT !.contentType = "text/plain; charset=utf-8"],
      [EmptyBody EXCEPT !.kind = "error", !.text = text], handler, op)

\* json.NewEncoder(w).Encode(v): status 200 and the encoded value.
Encode(s, w, body, handler, op) == Out(s, 200, w, body, handler, op)

\* A nil *mongo.Collection: the store call panics, net/http recovers and
\* closes the connection without a response.
Panic(s, w, handler) ==
  Out(s, 0, w, [EmptyBody EXCEPT !.kind = "panic"], handler, "none")

(***************************************************************************)
(* The handlers of the api package.  w is the header map as the middleware *)
(* left it, r the request, s the store, coll the package variable          *)
(* collection ("nil" or "set"), gen the _id the driver would generate and  *)
(* ok whether the store answers.                                           *)
(***************************************************************************)
InsertResult(id) == [EmptyBody EXCEPT !.kind = "InsertOneResult", !.id = Hex(id)]
FeatureBody(f) == [EmptyBody EXCEPT !.kind = "Feature", !.feature = EncodeFeature(f)]
CollectionBody(features) ==
  [EmptyBody EXCEPT !.kind = "FeatureCollection", !.type = "FeatureCollection",
                    !.features = [isNil |-> features.isNil,
                                  elems |-> [i \in 1..Len(features.elems) |->
                                               EncodeFeature(features.elems[i])]]]
MessageBody(text) == [EmptyBody EXCEPT !.kind = "message", !.text = text]

createLocation(w, r, s, coll, gen, ok) ==
  LET h == [w EXCEPT !.contentType = "application/json"]
      d == Decode(r.body)
  IN IF d.err THEN HttpError(s, h, "decode error", 400, "createLocation", "none")
     ELSE IF coll = "nil" THEN Panic(s, h, "createLocation")
     ELSE LET feature == [d.feature EXCEPT !.Type = "Feature"]
              result  == InsertOne(s, feature, gen, ok)
          IN IF result.err
             THEN HttpError(s, h, "store error", 500, "createLocation", "InsertOne")
             ELSE Encode(result.store, h, InsertResult(result.InsertedID),
                         "createLocation", "InsertOne")

getLocations(w, r, s, coll, gen, ok) ==
  LET h == [w EXCEPT !.contentType = "application/json"]
  IN IF coll = "nil" THEN Panic(s, h, "getLocations")
     ELSE LET found == Find(s, ok)
          IN IF found.err THEN HttpError(s, h, "store error", 500, "getLocations", "Find")
             ELSE Encode(s, h, CollectionBody(CursorAll(found.cursor, MakeSlice)),
                         "getLocations", "Find")

\* updateLocation as it would be if it decoded the body before it parsed
\* the path id.
updateLocation_DecodeFirst(w, r, s, coll, gen, ok) ==
  LET h  == [w EXCEPT !.contentType = "application/json"]
      id == ObjectIDFromHex(r.id)
      d  == Decode(r.body)
  IN IF d.err THEN HttpError(s, h, "decode error", 400, "updateLocation", "none")
     ELSE IF id.err THEN HttpError(s, h, "Invalid ID format", 400, "updateLocation", "none")
     ELSE IF coll = "nil" THEN Panic(s, h, "updateLocation")
     ELSE LET result == UpdateOne(s, id.id, d.feature.Properties, d.feature.Geometry, ok)
          IN IF result.err
             THEN HttpError(s, h, "store error", 500, "updateLocation", "UpdateOne")
             ELSE Encode(result.store, h, FeatureBody(d.feature), "updateLocation", "UpdateOne")

updateLocation(w, r, s, coll, gen, ok) ==
  LET h  == [w EXCEPT !.contentType = "application/json"]
      id == ObjectIDFromHex(r.id)
      d  == Decode(r.body)
  IN IF id.err THEN HttpError(s, h, "Invalid ID format", 400, "updateLocation", "none")
     ELSE IF d.err THEN HttpError(s, h, "decode error", 400, "updateLocation", "none")
     ELSE IF coll = "nil" THEN Panic(s, h, "updateLocation")
     ELSE LET result == UpdateOne(s, id.id, d.feature.Properties, d.feature.Geometry, ok)
          IN IF result.err
             THEN HttpError(s, h, "store error", 500, "updateLocation", "UpdateOne")
             ELSE Encode(result.store, h, FeatureBody(d.feature), "updateLocation", "UpdateOne")

deleteLocation(w, r, s, coll, gen, ok) ==
  LET h  == [w EXCEPT !.contentType = "application/json"]
      id == ObjectIDFromHex(r.id)
  IN IF id.err THEN HttpError(s, h, "Invalid ID format", 400, "deleteLocation", "none")
     ELSE IF coll = "nil" THEN Panic(s, h, "deleteLocation")
     ELSE LET result == DeleteOne(s, id.id, ok)
          IN IF result.err
             THEN HttpError(s, h, "store error", 500, "deleteLocation", "DeleteOne")
             ELSE IF result.DeletedCount = 0
             THEN HttpError(result.store, h, "Location not found", 404,
                            "deleteLocation", "DeleteOne")
             ELSE Encode(result.store, h, MessageBody("Location deleted successfully"),
                         "deleteLocation", "DeleteOne")

\* The handler function a route names.
CallHandler(name, w, r, s, coll, gen, ok) ==
  CASE name = "createLocation" -> createLocation(w, r, s, coll, gen, ok)
    [] name = "getLocations"   -> getLocations(w, r, s, coll, gen, ok)
    [] name = "updateLocation" -> updateLocation(w, r, s, coll, gen, ok)
    [] name = "deleteLocation" -> deleteLocation(w, r, s, coll, gen, ok)

\* corsMiddleware as it would be without the OPTIONS return.
corsMiddleware_NoReturn(next, w, r, s, coll, gen, ok) ==
  LET h == [w EXCEPT !.allowOrigin  = "*",
                     !.allowMethods = "GET, POST, PUT, DELETE, OPTIONS",
                     !.allowHeaders = "Content-Type, Authorization, X-Requested-With"]
  IN CallHandler(next, h, r, s, coll, gen, ok)

\* corsMiddleware(next): sets the three CORS headers, answers OPTIONS itself
\* and passes every other request on to next.
corsMiddleware(next, w, r, s, coll, gen, ok) ==
  LET h == [w EXCEPT !.allowOrigin  = "*",
                     !.allowMethods = "GET, POST, PUT, DELETE, OPTIONS",
                     !.allowHeaders = "Content-Type, Authorization, X-Requested-With"]
  IN IF r.method = "OPTIONS" THEN Out(s, 200, h, EmptyBody, "none", "none")
     ELSE CallHandler(next, h, r, s, coll, gen, ok)

\* The routes SetupRouter registers, in order.
Routes ==
  << [path |-> "/locations",      handler |-> "getLocations",   methods |-> {"GET", "OPTIONS"}],
     [path |-> "/locations",      handler |-> "createLocation", methods |-> {"POST", "OPTIONS"}],
     [path |-> "/locations/{id}", handler |-> "updateLocation", methods |-> {"PUT", "OPTIONS"}],
     [path |-> "/locations/{id}", handler |-> "deleteLocation", methods |-> {"DELETE", "OPTIONS"}] >>

\* mux.Router.Match: the first route whose path and method match, in
\* registration order; "none" if no route matches.
Match(routes, r) ==
  LET hits == {i \in 1..Len(routes) : routes[i].path = r.path /\ r.method \in routes[i].methods}
  IN IF hits = {} THEN "none"
     ELSE routes[CHOOSE i \in hits : \A j \in hits : i <= j].handler

\* The router SetupRouter returns: r.Use(corsMiddleware) wraps the handler
\* of the matched route.
ServeHTTP(r, s, coll, gen, ok) ==
  corsMiddleware(Match(Routes, r), NoHeaders, r, s, coll, gen, ok)

(***************************************************************************)
(* The standalone server: its own handlers and routes, wrapped by          *)
(* gorilla/handlers.CORS, which passes a request without an Origin header  *)
(* through unchanged.                                                      *)
(***************************************************************************)
main_createLocation(w, r, s, coll, gen, ok) ==
  LET h == [w EXCEPT !.contentType = "application/json"]
      d == Decode(r.body)
  IN IF d.err THEN HttpError(s, h, "decode error", 400, "createLocation", "none")
     ELSE LET feature == [d.feature EXCEPT !.Type = "Feature"]
              result  == InsertOne(s, feature, gen, ok)
          IN IF result.err
             THEN HttpError(s, h, "store error", 500, "createLocation", "InsertOne")
             ELSE Encode(result.store, h, InsertResult(result.InsertedID),
                         "createLocation", "InsertOne")

\* `var features []LocationFeature` is nil when cursor.All receives it.
main_getLocations(w, r, s, coll, gen, ok) ==
  LET h == [w EXCEPT !.contentType = "application/json"]
      found == Find(s, ok)
  IN IF found.err THEN HttpError(s, h, "store error", 500, "getLocations", "Find")
     ELSE Encode(s, h, CollectionBody(CursorAll(found.cursor, NilSlice)),
                 "getLocations", "Find")

main_updateLocation(w, r, s, coll, gen, ok) ==
  LET h  == [w EXCEPT !.contentType = "application/json"]
      id == ObjectIDFromHex(r.id)
      d  == Decode(r.body)
  IN IF id.err THEN HttpError(s, h, "Invalid ID format", 400, "updateLocation", "none")
     ELSE IF d.err THEN HttpError(s, h, "decode error", 400, "updateLocation", "none")
     ELSE LET result == UpdateOne(s, id.id, d.feature.Properties, d.feature.Geometry, ok)
          IN IF result.err
             THEN HttpError(s, h, "store error", 500, "updateLocation", "UpdateOne")
             ELSE Encode(result.store, h, FeatureBody(d.feature), "updateLocation", "UpdateOne")

main_deleteLocation(w, r, s, coll, gen, ok) ==
  LET h  == [w EXCEPT !.contentType = "application/json"]
      id == ObjectIDFromHex(r.id)
  IN IF id.err THEN HttpError(s, h, "Invalid ID format", 400, "deleteLocation", "none")
     ELSE LET result == DeleteOne(s, id.id, ok)
          IN IF result.err
             THEN HttpError(s, h, "store error", 500, "deleteLocation", "DeleteOne")
             ELSE IF result.DeletedCount = 0
             THEN HttpError(result.store, h, "Location not found", 404,
                            "deleteLocation", "DeleteOne")
             ELSE Encode(result.store, h, MessageBody("Location deleted successfully"),
                         "deleteLocation", "DeleteOne")

\* The routes main registers.
main_Routes ==
  << [path |-> "/locations",      handler |-> "getLocations",   methods |-> {"GET"}],
     [path |-> "/locations",      handler |-> "createLocation", methods |-> {"POST"}],
     [path |-> "/locations/{id}", handler |-> "updateLocation", methods |-> {"PUT"}],
     [path |-> "/locations/{id}", handler |-> "deleteLocation", methods |-> {"DELETE"}] >>

\* handlers.CORS(...)(r) serving a request that carries no Origin header.
main_ServeHTTP(r, s, coll, gen, ok) ==
  LET name == Match(main_Routes, r) IN
  CASE name = "createLocation" -> main_createLocation(NoHeaders, r, s, coll, gen, ok)
    [] name = "getLocations"   -> main_getLocations(NoHeaders, r, s, coll, gen, ok)
    [] name = "updateLocation" -> main_updateLocation(NoHeaders, r, s, coll, gen, ok)
    [] name = "deleteLocation" -> main_deleteLocation(NoHeaders, r, s, coll, gen, ok)

(***************************************************************************)
(* Requests.                                                               *)
(***************************************************************************)
PointGeometry == [type |-> Some("Point"), coordinates |-> Some(<<1, 2>>)]

\* The members "properties" and "geometry" of the sample bodies: both
\* absent, a partial properties object alone, both complete.
Payloads ==
  { [properties |-> None, geometry |-> None],
    [properties |-> Some([name |-> Some("A"), description |-> None]), geometry |-> None],
    [properties |-> Some([name |-> Some("B"), description |-> Some("d")]),
     geometry   |-> Some(PointGeometry)] }

\* The members "id" and "type" of the sample bodies: both absent, the zero
\* id with the right type, a sample id with a foreign type.
Envelopes ==
  { [id |-> None, type |-> None], [id |-> Some(Hex(NilObjectID)), type |-> Some("Feature")] }
  \cup { [id |-> Some(Hex(o)), type |-> Some("Foo")] : o \in ObjectIDs }

\* A body that is no JSON (also the empty body of GET, DELETE and OPTIONS).
NoJSON ==
  [wellFormed |-> FALSE, id |-> None, type |-> None, properties |-> None, geometry |-> None]

\* Well-formed JSON whose "id" is no ObjectID.
BadIDBody == [NoJSON EXCEPT !.wellFormed = TRUE, !.id = Some(String(3, TRUE, 291))]

Bodies ==
  { [wellFormed |-> TRUE, id |-> e.id, type |-> e.type,
     properties |-> p.properties, geometry |-> p.geometry] : e \in Envelopes, p \in Payloads }
  \cup {NoJSON, BadIDBody}

\* Values of the path variable {id}: the sample ids, the zero id, a string
\* that is too short and a string of 24 characters with a non-hex one.
PathIds ==
  { Hex(o) : o \in ObjectIDs \cup {NilObjectID} }
  \cup { String(3, TRUE, 291), String(HexLen, FALSE, 0) }

Request(method, path, id, body) ==
  [method |-> method, path |-> path, id |-> id, body |-> body]

\* The bodies sent with PUT: no id and type, or a foreign id and type.
PutBodies ==
  { b \in Bodies : b.id \in {None, Some(Hex(1))} }

Requests ==
  { Request("GET", "/locations", EmptyString, NoJSON),
    Request("OPTIONS", "/locations", EmptyString, NoJSON) }
  \cup { Request("POST", "/locations", EmptyString, b) : b \in Bodies }
  \cup { Request("PUT", "/locations/{id}", i, b) :
           i \in {j \in PathIds : ~ObjectIDFromHex(j).err}, b \in PutBodies }
  \cup { Request("PUT", "/locations/{id}", i, b) :
           i \in {j \in PathIds : ObjectIDFromHex(j).err},
           b \in {NoJSON, [NoJSON EXCEPT !.wellFormed = TRUE]} }
  \cup { Request(m, "/locations/{id}", i, NoJSON) : m \in {"DELETE", "OPTIONS"}, i \in PathIds }

Methods == {"GET", "POST", "PUT", "DELETE", "OPTIONS"}

RequestsBy == [m \in Methods |-> {r \in Requests : r.method = m}]

\* The requests the goroutines of SpecHandler serve.
HandlerRequests ==
  { Request("GET", "/locations", EmptyString, NoJSON), Request("OPTIONS", "/locations", EmptyString, NoJSON),
    Request("POST", "/locations", EmptyString, [NoJSON EXCEPT !.wellFormed = TRUE]),
    Request("POST", "/locations", EmptyString, NoJSON),
    Request("DELETE", "/locations/{id}", Hex(1), NoJSON) }

NoRequest == Request("none", "", EmptyString, NoJSON)
NoResponse == Out(<<>>, 0, NoHeaders, EmptyBody, "none", "none").resp

(***************************************************************************)
(* State.                                                                  *)
(***************************************************************************)
VARIABLES
  store,       \* the documents of gis_db.locations, in natural order
  collection,  \* the package variable collection: "nil" or "set"
  router,      \* the package variable router: 0 (nil) or the goroutine that built it
  dbOnce,      \* sync.Once: [done, holder]; holder is the goroutine in Do's mutex, or 0
  mongoURI,    \* os.Getenv("MONGO_URI"): "" or "uri"
  exited,      \* log.Fatal has ended the process
  pc,          \* where each goroutine is
  caller,      \* who called SetupRouter in each goroutine: "Handler" or "main"
  initCount,   \* history: how often the function given to dbOnce.Do has run
  served,      \* history: requests served (SpecHandler)
  req,         \* history: the last request served
  resp,        \* history: the response to it
  before,      \* history: the store when that request arrived
  live         \* history: what the 200 responses so far say the store holds

vars ==
  << store, collection, router, dbOnce, mongoURI, exited, pc, caller,
     initCount, served, req, resp, before, live >>

process == << collection, router, dbOnce, mongoURI, exited, pc, caller, initCount, served >>

Procs == 1..NumProcs

\* What a client that only sees requests and responses knows about the
\* records: a 200 to POST adds the record under the returned InsertedID, a
\* 200 to PUT replaces the fields of the record it names, if known, a 200
\* to DELETE removes it.
Track(l, r, rsp) ==
  IF rsp.status # 200 THEN l
  ELSE CASE r.method = "POST" ->
              l \cup { [id         |-> ObjectIDFromHex(rsp.body.id).id,
                        properties |-> DecodeProperties(r.body.properties),
                        geometry   |-> DecodeGeometry(r.body.geometry)] }
         [] r.method = "PUT" ->
              { IF e.id = ObjectIDFromHex(r.id).id
                THEN [id         |-> e.id,
                      properties |-> DecodeProperties(r.body.properties),
                      geometry   |-> DecodeGeometry(r.body.geometry)]
                ELSE e : e \in l }
         [] r.method = "DELETE" -> { e \in l : e.id # ObjectIDFromHex(r.id).id }
         [] OTHER -> l

\* The request needs a generated _id: a POST whose body decodes to the zero ID.
NeedsID(r) == r.method = "POST" /\ ~Decode(r.body).err /\ Decode(r.body).feature.ID = NilObjectID

\* The _id the driver may generate for request r: none that is in use.
Gens(r, ok, s) == IF NeedsID(r) /\ ok THEN ObjectIDs \ StoreIds(s) ELSE {NilObjectID}

\* One request served with outcome out.
Respond(r, out) ==
  /\ store' = out.store
  /\ resp' = out.resp
  /\ req' = r
  /\ before' = store
  /\ live' = Track(live, r, out.resp)

(***************************************************************************)
(* Spec: the api router behind src/main.go.  main has called SetupRouter   *)
(* once and serves every request with the router it returned.              *)
(***************************************************************************)
Init ==
  /\ store = <<>>
  /\ collection = "set"
  /\ router = 0
  /\ dbOnce = [done |-> TRUE, holder |-> 0]
  /\ mongoURI = "uri"
  /\ exited = FALSE
  /\ pc = [p \in Procs |-> "idle"]
  /\ caller = [p \in Procs |-> "main"]
  /\ initCount = 1
  /\ served = 0
  /\ req = NoRequest
  /\ resp = NoResponse
  /\ before = <<>>
  /\ live = {}

Serve(method) ==
  \E r \in RequestsBy[method], ok \in BOOLEAN : \E gen \in Gens(r, ok, store) :
    /\ Respond(r, ServeHTTP(r, store, collection, gen, ok))
    /\ UNCHANGED process

Preflight == Serve("OPTIONS")
List == Serve("GET")
Create == Serve("POST")
Update == Serve("PUT")
Delete == Serve("DELETE")

Next == Preflight \/ List \/ Create \/ Update \/ Delete

Spec == Init /\ [][Next]_vars

(***************************************************************************)
(* SpecStandalone: the standalone server after its main has connected.     *)
(***************************************************************************)
main_Serve(method) ==
  \E r \in RequestsBy[method], ok \in BOOLEAN : \E gen \in Gens(r, ok, store) :
    /\ Respond(r, main_ServeHTTP(r, store, collection, gen, ok))
    /\ UNCHANGED process

main_List == main_Serve("GET")
main_Create == main_Serve("POST")
main_Update == main_Serve("PUT")
main_Delete == main_Serve("DELETE")

NextStandalone == main_List \/ main_Create \/ main_Update \/ main_Delete

SpecStandalone == Init /\ [][NextStandalone]_vars

(***************************************************************************)
(* SpecHandler: a fresh process whose goroutines enter the package through *)
(* Handler (the serverless entry point) or SetupRouter, in any             *)
(* interleaving.  The reads and writes of the package variable router are  *)
(* unsynchronised single-word accesses: a read returns nil or a router     *)
(* that some goroutine has stored.  A goroutine that reads a stored router *)
(* reads collection only after the handler's context.WithTimeout, behind   *)
(* the writer's dbOnce.Do, and so reads the collection initDB has set.     *)
(***************************************************************************)
InitHandler ==
  /\ store = <<>>
  /\ collection = "nil"
  /\ router = 0
  /\ dbOnce = [done |-> FALSE, holder |-> 0]
  /\ mongoURI \in {"", "uri"}
  /\ exited = FALSE
  /\ pc = [p \in Procs |-> "idle"]
  /\ caller = [p \in Procs |-> "main"]
  /\ initCount = 0
  /\ served = 0
  /\ req = NoRequest
  /\ resp = NoResponse
  /\ before = <<>>
  /\ live = {}

requests == << store, req, resp, before, live >>

\* Handler: `if router == nil { router = SetupRouter() }`, then ServeHTTP.
\* The read of router races with the writes of other goroutines: it sees
\* the router stored last, or still nil.
Handler(p) ==
  /\ ~exited /\ pc[p] = "idle"
  /\ caller' = [caller EXCEPT ![p] = "Handler"]
  /\ \E seen \in {0, router} :
       pc' = [pc EXCEPT ![p] = IF seen = 0 THEN "SetupRouter" ELSE "ServeHTTP"]
  /\ UNCHANGED << collection, router, dbOnce, mongoURI, exited, initCount, served >>
  /\ UNCHANGED requests

\* A direct call of SetupRouter, as main does.
main(p) ==
  /\ ~exited /\ pc[p] = "idle"
  /\ caller' = [caller EXCEPT ![p] = "main"]
  /\ pc' = [pc EXCEPT ![p] = "SetupRouter"]
  /\ UNCHANGED << collection, router, dbOnce, mongoURI, exited, initCount, served >>
  /\ UNCHANGED requests

\* SetupRouter calls initDB, which calls dbOnce.Do: Do returns at once when
\* the Once is done, and takes the slow path otherwise.
initDB(p) ==
  /\ ~exited /\ pc[p] = "SetupRouter"
  /\ pc' = [pc EXCEPT ![p] = IF dbOnce.done THEN "NewRouter" ELSE "doSlow"]
  /\ UNCHANGED << collection, router, dbOnce, mongoURI, exited, caller, initCount, served >>
  /\ UNCHANGED requests

\* dbOnce.Do as it would be with a plain `if !done` in place of sync.Once:
\* no mutex and no second look at done.
OnceLock_NoMutex(p) ==
  /\ ~exited /\ pc[p] = "doSlow"
  /\ pc' = [pc EXCEPT ![p] = "connect"]
  /\ UNCHANGED << collection, router, dbOnce, mongoURI, exited, caller, initCount, served >>
  /\ UNCHANGED requests

\* dbOnce.Do, slow path: waits for the Once's mutex, then looks at done
\* again; the function runs only if the Once is still not done.
OnceLock(p) ==
  /\ ~exited /\ pc[p] = "doSlow"
  /\ dbOnce.holder = 0
  /\ IF dbOnce.done
     THEN /\ pc' = [pc EXCEPT ![p] = "NewRouter"]
          /\ UNCHANGED dbOnce
     ELSE /\ pc' = [pc EXCEPT ![p] = "connect"]
          /\ dbOnce' = [dbOnce EXCEPT !.holder = p]
  /\ UNCHANGED << collection, router, mongoURI, exited, caller, initCount, served >>
  /\ UNCHANGED requests

\* The function given to dbOnce.Do, up to the assignment of collection:
\* log.Fatal ends the process when MONGO_URI is empty or mongo.Connect fails.
Connect(p) ==
  /\ ~exited /\ pc[p] = "connect"
  /\ initCount' = initCount + 1
  /\ \E connected \in BOOLEAN :
       IF mongoURI = "" \/ ~connected
       THEN /\ exited' = TRUE
            /\ UNCHANGED << collection, pc >>
       ELSE /\ collection' = "set"
            /\ pc' = [pc EXCEPT ![p] = "index"]
            /\ UNCHANGED exited
  /\ UNCHANGED << router, dbOnce, mongoURI, caller, served >>
  /\ UNCHANGED requests

\* The rest of the function (the index is created best effort, its result
\* is dropped), after which Do marks the Once done and unlocks.
CreateIndex(p) ==
  /\ ~exited /\ pc[p] = "index"
  /\ dbOnce' = [done |-> TRUE, holder |-> 0]
  /\ pc' = [pc EXCEPT ![p] = "NewRouter"]
  /\ UNCHANGED << collection, router, mongoURI, exited, caller, initCount, served >>
  /\ UNCHANGED requests

\* SetupRouter after initDB: builds and returns the router; Handler stores
\* it in the package variable.
SetupRouter(p) ==
  /\ ~exited /\ pc[p] = "NewRouter"
  /\ router' = IF caller[p] = "Handler" THEN p ELSE router
  /\ pc' = [pc EXCEPT ![p] = "ServeHTTP"]
  /\ UNCHANGED << collection, dbOnce, mongoURI, exited, caller, initCount, served >>
  /\ UNCHANGED requests

\* router.ServeHTTP(w, r): one request served by the goroutine's router.
HandlerServe(p) ==
  /\ ~exited /\ pc[p] = "ServeHTTP"
  /\ served < MaxServed
  /\ \E r \in HandlerRequests, ok \in BOOLEAN : \E gen \in Gens(r, ok, store) :
       Respond(r, ServeHTTP(r, store, collection, gen, ok))
  /\ pc' = [pc EXCEPT ![p] = "idle"]
  /\ served' = served + 1
  /\ UNCHANGED << collection, router, dbOnce, mongoURI, exited, caller, initCount >>

NextHandler ==
  \E p \in Procs :
    \/ Handler(p)
    \/ main(p)
    \/ initDB(p)
    \/ OnceLock(p)
    \/ Connect(p)
    \/ CreateIndex(p)
    \/ SetupRouter(p)
    \/ HandlerServe(p)

SpecHandler == InitHandler /\ [][NextHandler]_vars

(***************************************************************************)
(* Properties.  They speak of the last request served (req), the response  *)
(* to it (resp), the store when it arrived (before) and the store now.     *)
(* A response with status 500 is the store failing; the properties of the  *)
(* other outcomes are stated for the requests the store answered.          *)
(***************************************************************************)
\* The path id of the last request, parsed; and whether it is well formed,
\* read off the string itself.
PathID == ObjectIDFromHex(req.id).id
WellFormedPathID == req.id.len = HexLen /\ req.id.hex
Answered == resp.status # 500

\* The value of an optional member, or zero when it is absent.
OrElse(opt, zero) == IF opt = None THEN zero ELSE opt[1]

\* The properties and geometry a body submits, member by member.
SubmittedProperties(body) ==
  [name        |-> IF body.properties = None THEN "" ELSE OrElse(body.properties[1].name, ""),
   description |-> IF body.properties = None THEN ""
                   ELSE OrElse(body.properties[1].description, "")]
SubmittedGeometry(body) ==
  [type        |-> IF body.geometry = None THEN "" ELSE OrElse(body.geometry[1].type, ""),
   coordinates |-> IF body.geometry = None THEN <<>>
                   ELSE OrElse(body.geometry[1].coordinates, <<>>)]

\* The store without the documents whose _id is id, order kept.
Without(s, id) == SelectSeq(s, LAMBDA d : d._id # id)

\* C1: every successful Create stores one new record whose type is
\* "Feature" and whose id is not the id the request body submitted.
C1_CreateAssignsTypeAndId ==
  (req.method = "POST" /\ resp.status = 200) =>
    /\ Len(store) = Len(before) + 1
    /\ SubSeq(store, 1, Len(before)) = before
    /\ store[Len(store)].type = "Feature"
    /\ req.body.id # None => store[Len(store)]._id # req.body.id[1].value

\* C2: a successful List returns exactly the records that the successful
\* Creates, Updates and Deletes so far leave: none missing, none extra, none
\* twice, each with the properties and geometry of its creation or of the
\* latest successful Update on its id.
C2_ListIsLiveRecords ==
  (req.method = "GET" /\ resp.status = 200) =>
    LET f == resp.body.features.elems IN
    /\ \A i \in 1..Len(f) : ~ObjectIDFromHex(f[i].id).err
    /\ { [id |-> ObjectIDFromHex(f[i].id).id, properties |-> f[i].properties,
          geometry |-> f[i].geometry] : i \in 1..Len(f) } = live
    /\ \A i, j \in 1..Len(f) : f[i].id = f[j].id => i = j
    /\ Len(f) = Cardinality(live)

C2_Witness ==
  /\ req.method = "GET" /\ resp.status = 200
  /\ Len(resp.body.features.elems) = 2
  /\ resp.body.features.elems[1].properties # resp.body.features.elems[2].properties

\* C3: a successful List on an empty store answers with type
\* "FeatureCollection" and a features member that is an empty sequence,
\* not null.
C3_EmptyListIsEmptySequence ==
  (req.method = "GET" /\ resp.status = 200 /\ before = <<>>) =>
    /\ resp.body.kind = "FeatureCollection"
    /\ resp.body.type = "FeatureCollection"
    /\ ~resp.body.features.isNil
    /\ resp.body.features.elems = <<>>

\* C4: an Update with a well-formed id that matches no record and a
\* decodable body answers 200 with the submitted feature echoed back and
\* leaves the store as it was.
C4_UpdateOfMissingIdIsNoOp ==
  ( /\ req.method = "PUT" /\ WellFormedPathID /\ PathID \notin StoreIds(before)
    /\ ~Decode(req.body).err /\ Answered ) =>
    /\ resp.status = 200
    /\ resp.body.kind = "Feature"
    /\ resp.body.feature =
         [id         |-> IF req.body.id = None THEN Hex(NilObjectID) ELSE req.body.id[1],
          type       |-> OrElse(req.body.type, ""),
          properties |-> SubmittedProperties(req.body),
          geometry   |-> SubmittedGeometry(req.body)]
    /\ store = before

C4_Witness ==
  /\ req.method = "PUT" /\ WellFormedPathID /\ PathID \notin StoreIds(before)
  /\ resp.status = 200 /\ resp.body.kind = "Feature"
  /\ req.body.properties # None
  /\ before # <<>> /\ store = before

\* C5, in a state: a Delete of a stored id answers 200 with the
\* confirmation message and removes that record and no other; a Delete of a
\* well-formed id that is not stored answers 404 "Location not found" and
\* leaves the store as it was.
C5_DeleteOutcome ==
  (req.method = "DELETE" /\ WellFormedPathID /\ Answered) =>
    IF PathID \in StoreIds(before)
    THEN /\ resp.status = 200
         /\ resp.body.kind = "message"
         /\ resp.body.text = "Location deleted successfully"
         /\ store = Without(before, PathID)
         /\ Len(store) = Len(before) - 1
    ELSE /\ resp.status = 404
         /\ resp.body.text = "Location not found"
         /\ store = before

\* C5, in a step: the Delete that follows a successful Delete of the same
\* id, with nothing served in between, answers 404.
C5_SecondDelete ==
  ( /\ req.method = "DELETE" /\ resp.status = 200
    /\ req'.method = "DELETE" /\ req'.id = req.id /\ resp'.status # 500 ) =>
    /\ resp'.status = 404
    /\ store' = store

\* C5: Delete answers 200 and removes exactly the record it names, or 404
\* and removes nothing; a second Delete of the same id answers 404.
C5_Delete == []C5_DeleteOutcome /\ [][C5_SecondDelete]_vars

C5_Witness ==
  /\ req.method = "DELETE" /\ resp.status = 200
  /\ Len(before) >= 2 /\ Len(store) = Len(before) - 1
  /\ before[1]._id # PathID

\* C6: a successful Update of a stored record sets its properties and
\* geometry to what the body holds, absent members becoming zero values,
\* and leaves its id, its type and every other record as they were.
C6_UpdateReplaces ==
  ( /\ req.method = "PUT" /\ WellFormedPathID /\ PathID \in StoreIds(before)
    /\ ~Decode(req.body).err /\ Answered ) =>
    /\ resp.status = 200
    /\ Len(store) = Len(before)
    /\ \A i \in 1..Len(before) :
         IF before[i]._id = PathID
         THEN /\ store[i]._id = before[i]._id
              /\ store[i].type = before[i].type
              /\ store[i].properties = SubmittedProperties(req.body)
              /\ store[i].geometry = SubmittedGeometry(req.body)
         ELSE store[i] = before[i]

C6_Witness ==
  /\ req.method = "PUT" /\ resp.status = 200 /\ WellFormedPathID
  /\ Len(before) >= 2
  /\ req.body.id # None /\ req.body.id[1] # req.id /\ req.body.type = Some("Foo")
  /\ req.body.properties # None /\ req.body.properties[1].description = None
  /\ \E i \in 1..Len(before) :
       /\ before[i]._id = PathID
       /\ before[i].properties.description = "d"
       /\ before[i].geometry # ZeroGeometry
       /\ store[i].properties.description = ""
       /\ store[i].geometry = ZeroGeometry
       /\ store[i].type = "Feature"

\* C7: a Create or Update whose body is no JSON and an Update or Delete
\* whose path id is no store identifier answer 400 without a store
\* operation and leave the store as it was; the path id is looked at first,
\* so an Update with both faults answers "Invalid ID format".
C7_BadInputIsRejected ==
  /\ ( /\ req.method \in {"POST", "PUT"} /\ ~req.body.wellFormed ) =>
       /\ resp.status = 400 /\ resp.op = "none" /\ store = before
  /\ ( /\ req.method \in {"PUT", "DELETE"} /\ ~WellFormedPathID ) =>
       /\ resp.status = 400 /\ resp.op = "none" /\ store = before
       /\ resp.body.text = "Invalid ID format"

C7_Witness ==
  /\ req.method = "PUT" /\ ~WellFormedPathID /\ ~req.body.wellFormed
  /\ resp.status = 400 /\ resp.body.text = "Invalid ID format"
  /\ before # <<>>

\* C8: an OPTIONS request to either path answers 200 with an empty body and
\* the three CORS headers, runs no resource handler and no store operation,
\* although the matched route names a resource handler.
C8_PreflightIsShortCircuited ==
  (req.method = "OPTIONS") =>
    /\ req.path \in {"/locations", "/locations/{id}"}
    /\ Match(Routes, req) \in {"getLocations", "updateLocation"}
    /\ resp.status = 200
    /\ resp.body = EmptyBody
    /\ resp.headers.allowOrigin = "*"
    /\ resp.headers.allowMethods = "GET, POST, PUT, DELETE, OPTIONS"
    /\ resp.headers.allowHeaders = "Content-Type, Authorization, X-Requested-With"
    /\ resp.handler = "none"
    /\ resp.op = "none"
    /\ store = before

C8_Witness ==
  /\ req.method = "OPTIONS" /\ req.path = "/locations/{id}"
  /\ WellFormedPathID /\ PathID \in StoreIds(store)
  /\ resp.status = 200

\* C9: the function given to dbOnce.Do runs at most once, whatever the
\* interleaving of the calls of Handler and SetupRouter, and no goroutine
\* is in ServeHTTP, nor has a handler run, with collection still nil.
C9_InitOnceBeforeServe ==
  /\ initCount <= 1
  /\ \A p \in Procs : pc[p] = "ServeHTTP" => collection = "set" /\ dbOnce.done
  /\ resp.body.kind # "panic"
  /\ served > 0 => collection = "set"

C9_Witness ==
  /\ initCount = 1
  /\ resp.handler # "none" /\ resp.status = 200
  /\ \E p, q \in Procs :
       /\ p # q
       /\ caller[p] = "Handler" /\ caller[q] = "Handler"
       /\ pc[p] = "NewRouter" /\ pc[q] = "ServeHTTP"
       /\ router = q

\* C10 as stated: every response carries Content-Type: application/json.
C10_EveryResponseIsJSON ==
  (req.method # "none") => resp.headers.contentType = "application/json"

\* C10 as it holds: a 200 response of a resource handler carries
\* Content-Type: application/json, a response written through http.Error
\* (400, 404, 500) carries text/plain; charset=utf-8, and the reply to
\* OPTIONS has no Content-Type set.
C10_ContentTypeByOutcome ==
  (req.method # "none") =>
    /\ (resp.handler # "none" /\ resp.status = 200) =>
         resp.headers.contentType = "application/json"
    /\ resp.status \in {400, 404, 500} =>
         resp.headers.contentType = "text/plain; charset=utf-8"
    /\ req.method = "OPTIONS" => resp.headers.contentType = ""
    /\ resp.status \in {200, 400, 404, 500}

C10_Witness ==
  /\ req.method = "DELETE" /\ resp.status = 404
  /\ resp.handler = "deleteLocation"
  /\ resp.headers.contentType = "text/plain; charset=utf-8"
====
